---- MODULE Spec2Model ----
(***************************************************************************)
(* Model of the tool-calling control loop of the YouTube tools agent       *)
(* (src/manual_code_sample.py): execute_tool, run_agent_loop, the fixed    *)
(* summarization_chain and manual_summarize_video.                         *)
(*                                                                         *)
(* The language model (llm_with_tools.invoke) is an external collaborator: *)
(* its k-th response is an arbitrary choice, recorded in `script` so that  *)
(* the three drivers can be compared on the same responses.  The code      *)
(* never inspects a response's text or a tool call's id, so each response  *)
(* carries a fresh text token and fresh ids.                               *)
(***************************************************************************)
EXTENDS Integers, Sequences, FiniteSets, TLC

\* ------------------------------------------------------------------ bounds
\* largest max_iterations a run is started with
MaxIterBound == 3
\* largest number of tool call requests the model issues over all its responses
MaxRequests == 4

VARIABLES
    script,          \* responses the model has given so far, by call number
    cancel,          \* an external cancellation signal (the environment's)
    max_iterations,  \* run_agent_loop's parameter
    pc,              \* run_agent_loop's position
    i,               \* number of loop iterations started
    messages,        \* run_agent_loop's conversation
    idx,             \* position in response.tool_calls of the inner for loop
    result,          \* run_agent_loop's return value
    events,          \* log of run_agent_loop's gateway calls and tool executions
    lastPrompt,      \* the conversation handed to the latest gateway call
    c_pc,            \* summarization_chain's position (the stage to run next)
    x,               \* summarization_chain's dict
    c_result,        \* summarization_chain's return value
    c_events,        \* log of summarization_chain's gateway calls and tool executions
    m_pc,            \* manual_summarize_video's position
    m_messages,      \* manual_summarize_video's conversation
    m_result,        \* manual_summarize_video's return value
    m_events         \* log of manual_summarize_video's gateway calls and tool executions

loopVars == <<max_iterations, pc, i, messages, idx, result, events, lastPrompt>>
chainVars == <<c_pc, x, c_result, c_events>>
manualVars == <<m_pc, m_messages, m_result, m_events>>
vars == <<script, cancel, loopVars, chainVars, manualVars>>

\* ------------------------------------------------------------ tools
ToolNames ==
    {"get_thumbnails", "extract_video_id", "fetch_transcript",
     "search_youtube", "get_full_metadata"}

\* tool_mapping (lines 178-184): the names execute_tool can resolve
tool_mapping == [n \in ToolNames |-> n]

\* argument bags the model may send: well formed and accepted by the service,
\* well formed but rejected (bad url, dead video), not matching the schema
ArgShapes == {"valid", "rejected", "malformed"}

Returned(v) == [raised |-> FALSE, value |-> v]
Raised(e)   == [raised |-> TRUE,  value |-> <<e>>]

\* The body of each @tool function on well-formed arguments.  Every tool but
\* get_full_metadata catches its own failures and returns an error value.
ToolBody(name, args) ==
    CASE name = "extract_video_id" ->
           IF args = "valid" THEN Returned(<<"", "video_id">>)
           ELSE Returned(<<"Error: ", "Invalid YouTube URL">>)
      [] name = "fetch_transcript" ->
           IF args = "valid" THEN Returned(<<"", "transcript">>)
           ELSE Returned(<<"Error: ", "TranscriptsDisabled">>)
      [] name = "search_youtube" ->
           IF args = "valid" THEN Returned(<<"", "results">>)
           ELSE Returned(<<"Error: ", "SearchFailed">>)
      [] name = "get_full_metadata" ->
           IF args = "valid" THEN Returned(<<"", "metadata">>)
           ELSE Raised("DownloadError")
      [] name = "get_thumbnails" ->
           IF args = "valid" THEN Returned(<<"", "thumbnails">>)
           ELSE Returned(<<"", "[{error: Failed to get thumbnails}]">>)

\* tool_mapping[name].invoke(args): KeyError for a name that is not mapped,
\* a validation error for arguments that do not fit the schema, else the body
ToolInvoke(name, args) ==
    IF name \notin DOMAIN tool_mapping THEN Raised("KeyError")
    ELSE IF args = "malformed" THEN Raised("ValidationError")
    ELSE ToolBody(tool_mapping[name], args)

\* ------------------------------------------------------------ messages
HumanMessage(c) ==
    [type |-> "human", content |-> c, tool_calls |-> <<>>, tool_call_id |-> 0]
AIMessage(r) ==
    [type |-> "ai", content |-> r.content, tool_calls |-> r.tool_calls,
     tool_call_id |-> 0]
ToolMessage(c, id) ==
    [type |-> "tool", content |-> c, tool_calls |-> <<>>, tool_call_id |-> id]

\* execute_tool with its except clause removed
execute_tool_uncaught(tool_call) ==
    LET r == ToolInvoke(tool_call.name, tool_call.args)
    IN  [raised |-> r.raised,
         value  |-> ToolMessage(r.value, tool_call.id)]

\* execute_tool resolving tool_mapping[name] before it enters the try block
execute_tool_lookup_outside_try(tool_call) ==
    LET r == ToolInvoke(tool_call.name, tool_call.args)
    IN  [raised |-> tool_call.name \notin DOMAIN tool_mapping,
         value  |-> IF r.raised
                    THEN ToolMessage(<<"Error: ", r.value[1]>>, tool_call.id)
                    ELSE ToolMessage(r.value, tool_call.id)]

\* execute_tool answering every request with the id of the run's first request
execute_tool_stale_id(tool_call) ==
    LET r == ToolInvoke(tool_call.name, tool_call.args)
    IN  [raised |-> FALSE,
         value  |-> IF r.raised
                    THEN ToolMessage(<<"Error: ", r.value[1]>>, 11)
                    ELSE ToolMessage(r.value, 11)]

\* execute_tool whose except branch drops the "Error: " prefix
execute_tool_hides_error(tool_call) ==
    LET r == ToolInvoke(tool_call.name, tool_call.args)
    IN  [raised |-> FALSE,
         value  |-> IF r.raised
                    THEN ToolMessage(<<"", r.value[1]>>, tool_call.id)
                    ELSE ToolMessage(r.value, tool_call.id)]

\* execute_tool (lines 201-218): the try branch wraps str(result), the except
\* branch wraps "Error: " + str(e); either way a ToolMessage is returned
execute_tool(tool_call) ==
    LET r == ToolInvoke(tool_call.name, tool_call.args)
    IN  [raised |-> FALSE,
         value  |-> IF r.raised
                    THEN ToolMessage(<<"Error: ", r.value[1]>>, tool_call.id)
                    ELSE ToolMessage(r.value, tool_call.id)]

\* ------------------------------------------------------------ the model gateway
\* (name, args) pairs the model requests: a call that succeeds, a tool that
\* raises, arguments that do not fit the schema, a name that is not mapped
Requests ==
    {<<"extract_video_id", "valid">>,
     <<"get_full_metadata", "rejected">>,
     <<"fetch_transcript", "malformed">>,
     <<"no_such_tool", "valid">>}

BoundedSeq(S, n) == UNION {[1..m -> S] : m \in 0..n}

RECURSIVE RequestsIn(_)
RequestsIn(s) ==
    IF s = <<>> THEN 0 ELSE Len(Head(s).tool_calls) + RequestsIn(Tail(s))

GatewayFailure == [ok |-> FALSE, content |-> <<>>, tool_calls |-> <<>>]

\* the responses the model can give to its k-th call
Responses(k) ==
    {GatewayFailure} \cup
    {[ok |-> TRUE,
      content |-> <<"llm_text", ToString(k)>>,
      tool_calls |-> [j \in 1..Len(rs) |->
                        [name |-> rs[j][1], args |-> rs[j][2], id |-> 10 * k + j]]] :
       rs \in BoundedSeq(Requests, MaxRequests - RequestsIn(script))}

\* llm_with_tools.invoke as the k-th call of a driver: the response recorded
\* for call k, or any new one
GatewayChoices(k) ==
    IF k <= Len(script) THEN {script[k]} ELSE Responses(k)

\* the script once call k was answered with r
Recorded(k, r) ==
    IF k <= Len(script) THEN script ELSE Append(script, r)

\* ------------------------------------------------------------ run_agent_loop
SENTINEL == <<"Max iterations reached without final answer">>
NoResult == <<>>
GatewayError == <<"GatewayUnavailableError">>
NoResponse == [ok |-> TRUE, content |-> <<>>, tool_calls |-> <<>>]

LlmEvent(k) == <<"llm", k>>
ToolEvent(tc) == <<"tool", tc.id>>

Init ==
    /\ script = <<>>
    /\ cancel = FALSE
    /\ max_iterations \in 0..MaxIterBound
    /\ pc = "for"
    /\ i = 0
    /\ messages = <<HumanMessage(<<"query">>)>>
    /\ idx = 0
    /\ result = NoResult
    /\ events = <<>>
    /\ lastPrompt = <<>>
    /\ c_pc = "ai_response"
    /\ x = [messages |-> <<HumanMessage(<<"query">>)>>,
            ai_response |-> NoResponse, tool_messages |-> <<>>,
            ai_response2 |-> NoResponse, tool_messages2 |-> <<>>]
    /\ c_result = NoResult
    /\ c_events = <<>>
    /\ m_pc = "response_1"
    /\ m_messages = <<HumanMessage(<<"query">>)>>
    /\ m_result = NoResult
    /\ m_events = <<>>

\* a loop that also stops at an iteration boundary once cancel is asserted
range_has_next_unless_cancelled == i < max_iterations /\ ~cancel

\* a loop that runs one iteration too few
range_has_next_one_short == i + 1 < max_iterations

\* a loop that runs one iteration too many
range_has_next_inclusive == i <= max_iterations

\* line 376: for i in range(max_iterations) has another iteration
range_has_next == i < max_iterations

\* a return of the query instead of the response's text
final_answer_is_query(response) == messages[1].content

\* line 388: return response.content
final_answer(response) == response.content

\* an inner loop that stops after the first tool call
tool_loop_done_after_first(k, n) == TRUE

\* line 394: for tool_call in response.tool_calls is exhausted after call k of n
tool_loop_done(k, n) == k = n

\* the tool call the inner for loop is at
CurrentToolCall == messages[Len(messages) - (idx - 1)].tool_calls[idx]

\* lines 376-388: one more iteration; the model is called, its response is
\* appended, and a response without tool calls is returned.  A failure of the
\* call is not caught and leaves run_agent_loop as an exception.
InvokeModel ==
    /\ pc = "for"
    /\ range_has_next
    /\ i' = i + 1
    /\ lastPrompt' = messages
    /\ events' = Append(events, LlmEvent(i + 1))
    /\ \E r \in GatewayChoices(i + 1) :
         /\ script' = Recorded(i + 1, r)
         /\ IF ~r.ok
            THEN /\ pc' = "raised"
                 /\ result' = GatewayError
                 /\ UNCHANGED <<messages, idx>>
            ELSE /\ messages' = Append(messages, AIMessage(r))
                 /\ IF r.tool_calls = <<>>
                    THEN /\ pc' = "returned"
                         /\ result' = final_answer(r)
                         /\ idx' = idx
                    ELSE /\ pc' = "tools"
                         /\ idx' = 1
                         /\ result' = result
    /\ UNCHANGED <<cancel, max_iterations, chainVars, manualVars>>

\* lines 394-396: the next tool call of the response is executed and its
\* result appended; after the last one the outer loop continues
ExecuteToolCall ==
    /\ pc = "tools"
    /\ LET tool_call == CurrentToolCall
           tool_result == execute_tool(tool_call)
           n == Len(messages[Len(messages) - (idx - 1)].tool_calls)
       IN  /\ events' = Append(events, ToolEvent(tool_call))
           /\ IF tool_result.raised
              THEN /\ pc' = "raised"
                   /\ result' = <<"ToolError">>
                   /\ UNCHANGED <<messages, idx>>
              ELSE /\ messages' = Append(messages, tool_result.value)
                   /\ result' = result
                   /\ IF tool_loop_done(idx, n)
                      THEN pc' = "for" /\ idx' = 0
                      ELSE pc' = "tools" /\ idx' = idx + 1
    /\ UNCHANGED <<script, cancel, max_iterations, i, lastPrompt, chainVars, manualVars>>

\* line 405: the for loop is exhausted
ReturnMaxIterations ==
    /\ pc = "for"
    /\ ~range_has_next
    /\ pc' = "returned"
    /\ result' = SENTINEL
    /\ UNCHANGED <<script, cancel, max_iterations, i, messages, idx, events, lastPrompt,
                   chainVars, manualVars>>

\* the environment asserts cancellation while the run is in progress;
\* run_agent_loop(query, max_iterations, verbose) has no parameter to read it
AssertCancel ==
    /\ pc \in {"for", "tools"}
    /\ ~cancel
    /\ cancel' = TRUE
    /\ UNCHANGED <<script, loopVars, chainVars, manualVars>>

LoopNext == InvokeModel \/ ExecuteToolCall \/ ReturnMaxIterations

Next == LoopNext \/ AssertCancel

Spec == Init /\ [][Next]_vars

\* ------------------------------------------------------------ summarization_chain
\* a comprehension that executes tool_calls[0] only, as manual_summarize_video does
ExecuteFirstOnly(tool_calls) ==
    [j \in 1..(IF tool_calls = <<>> THEN 0 ELSE 1) |-> execute_tool(tool_calls[j])]

\* [execute_tool(tc) for tc in tool_calls]
ExecuteAll(tool_calls) == [j \in 1..Len(tool_calls) |-> execute_tool(tool_calls[j])]

\* the log entries of the first n executions of tool_calls
ToolEvents(tool_calls, n) == [j \in 1..n |-> ToolEvent(tool_calls[j])]

\* lines 291-293 and 305-307: the k-th model call of the chain, stored under key
ChainInvoke(k, here, key, there) ==
    /\ c_pc = here
    /\ c_events' = Append(c_events, LlmEvent(k))
    /\ \E r \in GatewayChoices(k) :
         /\ script' = Recorded(k, r)
         /\ IF ~r.ok
            THEN c_pc' = "raised" /\ c_result' = GatewayError /\ x' = x
            ELSE c_pc' = there /\ c_result' = c_result /\ x' = [x EXCEPT ![key] = r]
    /\ UNCHANGED <<cancel, loopVars, manualVars>>

\* lines 295-299 and 309-313: every tool call of the response is executed
ChainTools(here, from, key, there) ==
    /\ c_pc = here
    /\ LET done == ExecuteAll(x[from].tool_calls)
       IN  /\ c_events' = c_events \o ToolEvents(x[from].tool_calls, Len(done))
           /\ IF \E j \in 1..Len(done) : done[j].raised
              THEN c_pc' = "raised" /\ c_result' = <<"ToolError">> /\ x' = x
              ELSE /\ c_pc' = there
                   /\ c_result' = c_result
                   /\ x' = [x EXCEPT ![key] = [j \in 1..Len(done) |-> done[j].value]]
    /\ UNCHANGED <<script, cancel, loopVars, manualVars>>

\* lines 301-303 and 315-317: messages + [response] + tool messages
ChainUpdate(here, resp, tools, there) ==
    /\ c_pc = here
    /\ c_pc' = there
    /\ x' = [x EXCEPT !.messages = x.messages \o <<AIMessage(x[resp])>> \o x[tools]]
    /\ UNCHANGED <<script, cancel, loopVars, manualVars, c_result, c_events>>

ChainInvoke1 == ChainInvoke(1, "ai_response", "ai_response", "tool_messages")
ChainTools1 == ChainTools("tool_messages", "ai_response", "tool_messages", "messages")
ChainUpdate1 == ChainUpdate("messages", "ai_response", "tool_messages", "ai_response2")
ChainInvoke2 == ChainInvoke(2, "ai_response2", "ai_response2", "tool_messages2")
ChainTools2 == ChainTools("tool_messages2", "ai_response2", "tool_messages2", "messages2")
ChainUpdate2 == ChainUpdate("messages2", "ai_response2", "tool_messages2", "summary")

\* lines 319-323: the third model call; its text is the chain's output, whatever
\* tool calls it carries
ChainSummary ==
    /\ c_pc = "summary"
    /\ c_events' = Append(c_events, LlmEvent(3))
    /\ \E r \in GatewayChoices(3) :
         /\ script' = Recorded(3, r)
         /\ IF ~r.ok
            THEN c_pc' = "raised" /\ c_result' = GatewayError
            ELSE c_pc' = "returned" /\ c_result' = r.content
    /\ UNCHANGED <<cancel, loopVars, manualVars, x>>

ChainNext ==
    \/ ChainInvoke1 \/ ChainTools1 \/ ChainUpdate1
    \/ ChainInvoke2 \/ ChainTools2 \/ ChainUpdate2
    \/ ChainSummary

\* ------------------------------------------------------------ manual_summarize_video
\* lines 250-251 and 262-263: the k-th model call; the response is appended
ManualInvoke(k, here, there) ==
    /\ m_pc = here
    /\ m_events' = Append(m_events, LlmEvent(k))
    /\ \E r \in GatewayChoices(k) :
         /\ script' = Recorded(k, r)
         /\ IF ~r.ok
            THEN m_pc' = "raised" /\ m_result' = GatewayError /\ m_messages' = m_messages
            ELSE /\ m_pc' = there
                 /\ m_result' = m_result
                 /\ m_messages' = Append(m_messages, AIMessage(r))
    /\ UNCHANGED <<cancel, loopVars, chainVars>>

\* lines 255-259 and 267-271: only tool_calls[0] is executed, through
\* tool_mapping directly, so whatever it raises leaves the function; the
\* result goes into the ToolMessage as it is, without str()
ManualTool(here, there) ==
    /\ m_pc = here
    /\ LET response == m_messages[Len(m_messages)]
       IN  IF response.tool_calls = <<>>
           THEN m_pc' = there /\ UNCHANGED <<m_messages, m_result, m_events>>
           ELSE LET tool_call == response.tool_calls[1]
                    r == ToolInvoke(tool_call.name, tool_call.args)
                IN  /\ m_events' = Append(m_events, ToolEvent(tool_call))
                    /\ IF r.raised
                       THEN /\ m_pc' = "raised"
                            /\ m_result' = r.value
                            /\ m_messages' = m_messages
                       ELSE /\ m_pc' = there
                            /\ m_result' = m_result
                            /\ m_messages' =
                                 Append(m_messages, ToolMessage(r.value, tool_call.id))
    /\ UNCHANGED <<script, cancel, loopVars, chainVars>>

ManualInvoke1 == ManualInvoke(1, "response_1", "tool_call_1")
ManualTool1 == ManualTool("tool_call_1", "response_2")
ManualInvoke2 == ManualInvoke(2, "response_2", "tool_call_2")
ManualTool2 == ManualTool("tool_call_2", "summary_response")

\* lines 274-276: the third model call; its text is returned
ManualSummary ==
    /\ m_pc = "summary_response"
    /\ m_events' = Append(m_events, LlmEvent(3))
    /\ \E r \in GatewayChoices(3) :
         /\ script' = Recorded(3, r)
         /\ IF ~r.ok
            THEN m_pc' = "raised" /\ m_result' = GatewayError
            ELSE m_pc' = "returned" /\ m_result' = r.content
    /\ UNCHANGED <<cancel, loopVars, chainVars, m_messages>>

ManualNext ==
    \/ ManualInvoke1 \/ ManualTool1 \/ ManualInvoke2 \/ ManualTool2 \/ ManualSummary

\* ------------------------------------------------------------ the three drivers
\* The drivers are separate calls of separate functions: a behaviour runs
\* run_agent_loop and then one of the two pipelines on the same model responses.
Finished(p) == p \in {"returned", "raised"}

NextPipe ==
    \/ LoopNext
    \/ (Finished(pc) /\ m_pc = "response_1" /\ ChainNext)
    \/ (Finished(pc) /\ c_pc = "ai_response" /\ ManualNext)

SpecPipe == Init /\ [][NextPipe]_vars

\* ============================================================ properties
Count(ev, tag) == Cardinality({k \in DOMAIN ev : ev[k][1] = tag})
GatewayCalls(ev) == Count(ev, "llm")
ToolExecutions(ev) == Count(ev, "tool")

\* positions of the assistant messages of a conversation
AIPositions(msgs) == {p \in DOMAIN msgs : msgs[p].type = "ai"}

\* the latest assistant message before position p (0 when there is none)
LastAIBefore(msgs, p) ==
    LET before == {q \in AIPositions(msgs) : q < p}
    IN  IF before = {} THEN 0 ELSE CHOOSE q \in before : \A o \in before : o <= q

\* the result a tool message reports is a failure: the "Error: " content that
\* execute_tool's except branch builds (a ToolMessage carries no other flag)
Failed(m) == m.type = "tool" /\ m.content[1] = "Error: "

\* the (name, args) of a request is one the tool layer raises on
Raises(tool_call) == ToolInvoke(tool_call.name, tool_call.args).raised

\* the order (iterations left, tool calls left in the turn, still running)
Left == <<max_iterations - i,
          IF pc = "tools"
          THEN Len(messages[Len(messages) - (idx - 1)].tool_calls) - idx + 1
          ELSE 0,
          IF Finished(pc) THEN 0 ELSE 1>>

LexLess(a, b) ==
    \/ a[1] < b[1]
    \/ a[1] = b[1] /\ a[2] < b[2]
    \/ a[1] = b[1] /\ a[2] = b[2] /\ a[3] < b[3]

\* C1: for every max_iterations >= 0 and every behaviour of the model,
\* run_agent_loop terminates after at most max_iterations model calls: every
\* step of the loop decreases a lexicographic measure that is bounded below, an
\* unfinished run can always take a step, the number of model calls never
\* exceeds max_iterations, and a run that exhausts its iterations without a
\* final answer returns the sentinel string (it does not raise).
C1_Terminates ==
    /\ [][loopVars' # loopVars => LexLess(Left', Left)]_vars
    /\ [](/\ Left[1] >= 0 /\ Left[2] >= 0
          /\ GatewayCalls(events) <= max_iterations
          /\ (~Finished(pc) => ENABLED LoopNext)
          /\ (pc = "for" /\ i >= max_iterations =>
                ENABLED ReturnMaxIterations /\ ~ENABLED InvokeModel)
          /\ (Finished(pc) /\ i = max_iterations
                /\ (i > 0 => script[i].ok /\ script[i].tool_calls # <<>>)
                => pc = "returned" /\ result = SENTINEL))

\* a run that used all of its (at least two) iterations and returned the sentinel
C1_Witness ==
    /\ pc = "returned" /\ result = SENTINEL
    /\ max_iterations >= 2
    /\ GatewayCalls(events) = max_iterations

\* C2: in every turn in which the model issues N >= 1 tool requests, exactly N
\* tool results follow the assistant message in the conversation, result j
\* answering request j, whether the executions succeed or fail (while the turn
\* is still being executed: exactly the results of the requests executed so far).
C2_OneResultPerRequest ==
    \A p \in AIPositions(messages) :
        LET tcs == messages[p].tool_calls
            current == pc = "tools" /\ p = LastAIBefore(messages, Len(messages) + 1)
            done == IF current THEN idx - 1 ELSE Len(tcs)
        IN  /\ \A j \in 1..done :
                  /\ p + j <= Len(messages)
                  /\ messages[p + j].type = "tool"
                  /\ messages[p + j].tool_call_id = tcs[j].id
            /\ (p + done = Len(messages) \/ messages[p + done + 1].type # "tool")

\* a finished turn of two or more requests, a failing one before a succeeding one
C2_Witness ==
    \E p \in AIPositions(messages) :
        /\ Len(messages[p].tool_calls) >= 2
        /\ p + Len(messages[p].tool_calls) < Len(messages)
        /\ Failed(messages[p + 1]) /\ ~Failed(messages[p + 2])

\* C3: execute_tool never raises: for an unknown tool name, for malformed
\* arguments and for a tool that raises it returns a tool message whose
\* content is "Error: " followed by the exception's text, and for any other
\* request the tool's result; no run ever ends with a tool-level exception.
C3_ExecuteToolNeverRaises ==
    /\ pc = "tools" =>
         LET tc == CurrentToolCall
             inner == ToolInvoke(tc.name, tc.args)
             out == execute_tool(tc)
         IN  /\ ~out.raised
             /\ out.value.type = "tool"
             /\ (inner.raised => out.value.content = <<"Error: ", inner.value[1]>>)
             /\ (~inner.raised => out.value.content = inner.value)
    /\ (pc = "raised" => result = GatewayError)

\* one conversation holds the error results of an unknown name, of malformed
\* arguments and of a raising tool
C3_Witness ==
    /\ \E p \in DOMAIN messages : messages[p].content = <<"Error: ", "KeyError">>
    /\ \E p \in DOMAIN messages : messages[p].content = <<"Error: ", "ValidationError">>
    /\ \E p \in DOMAIN messages : messages[p].content = <<"Error: ", "DownloadError">>

\* C4: every tool message of the conversation carries the id of a tool call of
\* the latest assistant message before it; none answers a request of an
\* earlier turn or no request at all.
C4_ResultAnswersLatestTurn ==
    \A p \in DOMAIN messages :
        messages[p].type = "tool" =>
            LET q == LastAIBefore(messages, p)
            IN  /\ q > 0
                /\ \E j \in DOMAIN messages[q].tool_calls :
                      messages[q].tool_calls[j].id = messages[p].tool_call_id

\* tool results of two different turns in one conversation
C4_Witness ==
    \E p, q \in DOMAIN messages :
        /\ messages[p].type = "tool" /\ messages[q].type = "tool"
        /\ LastAIBefore(messages, p) # LastAIBefore(messages, q)

\* C5: when response k (k <= max_iterations) carries no tool request, the run
\* has returned exactly that response's text, call k was its last model call
\* and nothing was executed after it; when that is the first response, the run
\* made one model call and executed no tool.
C5_FinalAnswerReturned ==
    \A k \in 1..Len(script) :
        (script[k].ok /\ script[k].tool_calls = <<>>) =>
            /\ pc = "returned"
            /\ result = script[k].content
            /\ k = Len(script) /\ k = i /\ k <= max_iterations
            /\ events[Len(events)] = LlmEvent(k)
            /\ messages[Len(messages)] = AIMessage(script[k])
            /\ (k = 1 => GatewayCalls(events) = 1 /\ ToolExecutions(events) = 0)

\* a final answer on the first call, with iterations to spare
C5_Witness ==
    /\ max_iterations >= 2
    /\ Len(script) = 1 /\ script[1].ok /\ script[1].tool_calls = <<>>
    /\ pc = "returned" /\ result = <<"llm_text", "1">>

EndsWithAnswer ==
    /\ pc = "returned" /\ i >= 1
    /\ script[i].ok /\ script[i].tool_calls = <<>>
    /\ result = script[i].content

EndsWithSentinel ==
    /\ pc = "returned" /\ result = SENTINEL /\ i = max_iterations
    /\ (i >= 1 => script[i].ok /\ script[i].tool_calls # <<>>)

EndsWithGatewayFailure ==
    /\ pc = "raised" /\ result = GatewayError
    /\ i >= 1 /\ ~script[i].ok
    /\ events[Len(events)] = LlmEvent(i)

\* C7: a finished run has returned a final answer, or returned the sentinel
\* string, or raised the model call's failure, and exactly one of the three;
\* a failure of a model call is never survived (it is the run's last step),
\* and no exception of the tool layer leaves the run, whatever tools failed.
C7_ThreeOutcomes ==
    /\ Finished(pc) =>
         /\ EndsWithAnswer \/ EndsWithSentinel \/ EndsWithGatewayFailure
         /\ ~(EndsWithAnswer /\ EndsWithSentinel)
         /\ ~(EndsWithAnswer /\ EndsWithGatewayFailure)
         /\ ~(EndsWithSentinel /\ EndsWithGatewayFailure)
    /\ \A k \in 1..Len(script) : ~script[k].ok => k = i /\ EndsWithGatewayFailure
    /\ (pc = "raised" => events[Len(events)][1] = "llm")

\* a run in which tools failed and which then ended with a gateway failure
C7_Witness ==
    /\ EndsWithGatewayFailure
    /\ \E p \in DOMAIN messages : messages[p].content = <<"Error: ", "KeyError">>
    /\ \E p \in DOMAIN messages : messages[p].content = <<"Error: ", "DownloadError">>

\* C8 as stated: once cancellation is asserted the run makes no further model
\* call and executes no further tool.
C8_CancelHaltsRun ==
    [][cancel => /\ ToolExecutions(events') = ToolExecutions(events)
                 /\ GatewayCalls(events') = GatewayCalls(events)]_vars

\* C8 as the code has it: run_agent_loop reads no cancellation signal.  With
\* cancellation asserted an unfinished run still has its next step: the next
\* tool call of the turn is executed, the next model call is made while an
\* iteration is left, and the sentinel is returned only with the iterations
\* used up.
C8_CancelIgnored ==
    cancel =>
        /\ (~Finished(pc) => ENABLED LoopNext)
        /\ (pc = "tools" => ENABLED ExecuteToolCall)
        /\ (pc = "for" /\ i < max_iterations => ENABLED InvokeModel)
        /\ (pc = "returned" /\ result = SENTINEL => i = max_iterations)

\* cancellation is asserted and the tool calls of a second turn are about to run
C8_Witness == cancel /\ pc = "tools" /\ idx = 1 /\ i >= 2

\* every tool request of msgs is answered, in order, right behind its message
NoPending(msgs) ==
    \A p \in AIPositions(msgs) :
        LET tcs == msgs[p].tool_calls
        IN  /\ p + Len(tcs) <= Len(msgs)
            /\ \A j \in 1..Len(tcs) :
                  /\ msgs[p + j].type = "tool"
                  /\ msgs[p + j].tool_call_id = tcs[j].id

\* C9: a tool is executed only when the assistant message that requests it
\* is already the latest assistant message of the conversation and the
\* requests before it in that turn are answered; a model call is made only
\* with a conversation in which every tool request is answered.
C9_StrictOrder ==
    /\ [](NoPending(lastPrompt))
    /\ [][GatewayCalls(events') > GatewayCalls(events) =>
            NoPending(messages) /\ lastPrompt' = messages]_vars
    /\ [][ToolExecutions(events') > ToolExecutions(events) =>
            LET q == LastAIBefore(messages, Len(messages) + 1)
                j == Len(messages) - q + 1
            IN  /\ q > 0
                /\ j <= Len(messages[q].tool_calls)
                /\ events'[Len(events')] = ToolEvent(messages[q].tool_calls[j])
                /\ \A k \in 1..(j - 1) :
                      messages[q + k].tool_call_id = messages[q].tool_calls[k].id]_vars

\* a model call that was handed a turn of two or more answered requests
C9_Witness ==
    \E p \in AIPositions(lastPrompt) : Len(lastPrompt[p].tool_calls) >= 2

\* the pipeline did what run_agent_loop did
ChainAsLoop ==
    c_pc = pc /\ c_events = events /\ c_result = result /\ x.messages = messages
ManualAsLoop ==
    m_pc = pc /\ m_events = events /\ m_result = result /\ m_messages = messages

\* C10 as stated: on the same responses the pipelines do what run_agent_loop
\* does with max_iterations = 2.
C10_SubsumedByLoopOfTwo ==
    (max_iterations = 2 /\ Finished(pc)) =>
        /\ (Finished(c_pc) => ChainAsLoop)
        /\ (Finished(m_pc) => ManualAsLoop)

\* responses 1 and 2 request tools, response 3 is a plain answer
TwoToolTurnsThenAnswer ==
    /\ Len(script) >= 3
    /\ \A k \in 1..2 : script[k].ok /\ script[k].tool_calls # <<>>
    /\ script[3].ok /\ script[3].tool_calls = <<>>

\* tool requests of responses 1 and 2, and the turns among them that have any
RequestsOfTwoTurns == Len(script[1].tool_calls) + Len(script[2].tool_calls)
TurnsWithRequests == Cardinality({k \in 1..2 : script[k].tool_calls # <<>>})

\* C10 as the code has it: a pipeline that returns has made exactly three
\* model calls and returns the third response's text, whether or not a
\* response carried tool requests; summarization_chain has then executed every
\* request of the first two responses, manual_summarize_video the first
\* request of each.  When the first two responses request tools and the third
\* does not, summarization_chain makes the calls and executions, and returns
\* the output, of run_agent_loop with max_iterations >= 3, and its messages are
\* the loop's without the final assistant message.
C10_PipelineIsLoopOfThree ==
    /\ (c_pc = "returned" =>
          /\ GatewayCalls(c_events) = 3 /\ c_result = script[3].content
          /\ ToolExecutions(c_events) = RequestsOfTwoTurns)
    /\ (m_pc = "returned" =>
          /\ GatewayCalls(m_events) = 3 /\ m_result = script[3].content
          /\ ToolExecutions(m_events) = TurnsWithRequests)
    /\ (max_iterations >= 3 /\ Finished(pc) /\ Finished(c_pc)
          /\ TwoToolTurnsThenAnswer) =>
          /\ c_pc = pc /\ c_events = events /\ c_result = result
          /\ messages = Append(x.messages, AIMessage(script[3]))

\* the chain has returned after two tool turns, one of several requests and
\* one with a failing tool, next to a loop run of three iterations
C10_Witness ==
    /\ max_iterations = 3 /\ pc = "returned" /\ c_pc = "returned"
    /\ TwoToolTurnsThenAnswer
    /\ ToolExecutions(c_events) >= 3
    /\ \E p \in DOMAIN x.messages : Failed(x.messages[p])

\* C11: run_agent_loop returns the sentinel only after exactly max_iterations
\* model calls, each of which answered with at least one tool request, and
\* with every request of every turn, the last one included, executed and its
\* result appended: the conversation then ends with the result of the last
\* request of the last turn, which was appended after the latest model call
\* took its conversation.  With max_iterations = 0 the sentinel is returned
\* with no model call, no tool execution and the conversation as seeded.
C11_SentinelOnlyAfterFullLastTurn ==
    (pc = "returned" /\ result = SENTINEL) =>
        /\ i = max_iterations
        /\ GatewayCalls(events) = max_iterations
        /\ Len(script) = max_iterations
        /\ \A k \in 1..max_iterations :
              script[k].ok /\ script[k].tool_calls # <<>>
        /\ ToolExecutions(events) = RequestsIn(script)
        /\ NoPending(messages)
        /\ Len(messages) = 1 + max_iterations + RequestsIn(script)
        /\ (max_iterations > 0 =>
              LET last == messages[Len(messages)]
                  tcs == script[max_iterations].tool_calls
              IN  /\ last.type = "tool"
                  /\ last.tool_call_id = tcs[Len(tcs)].id
                  /\ events[Len(events)] = ToolEvent(tcs[Len(tcs)])
                  /\ Len(lastPrompt) + 1 + Len(tcs) = Len(messages)
                  /\ \A p \in DOMAIN lastPrompt : lastPrompt[p] = messages[p])
        /\ (max_iterations = 0 =>
              /\ events = <<>>
              /\ messages = <<HumanMessage(<<"query">>)>>)

\* the sentinel returned after two or more iterations whose last turn held
\* several requests
C11_Witness ==
    /\ pc = "returned" /\ result = SENTINEL
    /\ max_iterations >= 2
    /\ Len(script[max_iterations].tool_calls) >= 2
    /\ messages[Len(messages)].type = "tool"

\* the sentinel returned by a run that was given no iteration
C11_WitnessZero ==
    pc = "returned" /\ result = SENTINEL /\ max_iterations = 0

====
